---- MODULE Spec2Model ----
(***************************************************************************)
(* The 2.5D DC resistivity forward-simulation notebook                     *)
(* (exercises/01-forward-dc-resisitivity-2d-exercise.ipynb) as a state     *)
(* machine: one action per notebook cell, run top to bottom.  The          *)
(* variables are the notebook's names.  Exercise cells are modelled by     *)
(* what their prompt tells the learner to write.  The variables hold the   *)
(* values the cells work with; namespace holds the names that are bound in *)
(* the kernel, and a cell that reads a name not bound there stops the run. *)
(*                                                                         *)
(* All coordinates are exact fixed-point numbers in quarter units          *)
(* (a length of 1 m is the integer 4), so that cell centres, the survey    *)
(* midpoint and interpolated elevations stay integral.                     *)
(***************************************************************************)
EXTENDS Integers, Sequences, FiniteSets, TLC

VARIABLES pc, topo_2d, x_topo, end_locations, data_type, survey,
          dh, dom_width_x, dom_width_y, nbcx, nbcy, y_topo_max, mesh,
          unique_locations, active_cells, resistivity_model, plotted_model,
          resistivity_map, simulation, dpred, apparent_resistivity,
          num_rx_per_src, station_separation, log_resistivity_model,
          model_geometry, mesh_calls, survey_writes, namespace

vars == <<pc, topo_2d, x_topo, end_locations, data_type, survey,
          dh, dom_width_x, dom_width_y, nbcx, nbcy, y_topo_max, mesh,
          unique_locations, active_cells, resistivity_model, plotted_model,
          resistivity_map, simulation, dpred, apparent_resistivity,
          num_rx_per_src, station_separation, log_resistivity_model,
          model_geometry, mesh_calls, survey_writes, namespace>>

(***************************************************************************)
(* Bounds of the model.                                                    *)
(***************************************************************************)
TopoHalfWidth == 3      \* topography sampled on x = -TopoHalfWidth..TopoHalfWidth
MaxAmp        == 1      \* elevation amplitudes 0..MaxAmp
SurveyHalf    == 2      \* end locations -SurveyHalf and SurveyHalf, SurveyHalf+1
MaxRx         == 2      \* receivers per source 1..MaxRx
MaxDh         == 2      \* minimum cell widths 1..MaxDh
MaxWidth      == 5      \* dom_width_x in dh..MaxWidth
MaxDepth      == 3      \* dom_width_y in dh..MaxDepth
LineSlack     == 6      \* survey-line study: right end 65-LineSlack..65
MaxSepFactor  == 2      \* survey-line study: spacings 5, 10, ..
MaxBasement   == 1      \* basement elevations 0..MaxBasement
MaxRadius     == 1      \* cylinder radii 1..MaxRadius

(***************************************************************************)
(* Values the notebook's prompts fix.                                      *)
(***************************************************************************)
PromptEndLocations == <<-65, 65>>   \* Step 2: horizontal end locations
PromptRxPerSrc     == 15            \* Step 2: receivers per source
PromptSpacing      == 5             \* Step 2: electrode spacing

(***************************************************************************)
(* Arithmetic helpers.                                                     *)
(***************************************************************************)
Q(v) == 4 * v           \* a whole number of metres in quarter units

Abs(v) == IF v < 0 THEN -v ELSE v

Min2(a, b) == IF a <= b THEN a ELSE b

Max2(a, b) == IF a >= b THEN a ELSE b

RECURSIVE Pow2(_)
Pow2(k) == IF k <= 0 THEN 1 ELSE 2 * Pow2(k - 1)

RECURSIVE SeqMax(_)
SeqMax(s) == IF Len(s) = 1 THEN s[1] ELSE Max2(s[1], SeqMax(Tail(s)))

RECURSIVE SeqSum(_)
SeqSum(s) == IF s = <<>> THEN 0 ELSE s[1] + SeqSum(Tail(s))

RECURSIVE Flatten(_)
Flatten(ss) == IF ss = <<>> THEN <<>> ELSE ss[1] \o Flatten(Tail(ss))

(***************************************************************************)
(* Step 1: topography.  The notebook's curve y = 4 + 4 tanh(x/100) is a    *)
(* saturating, non-decreasing ramp from 0 to twice its amplitude; the      *)
(* model samples the piecewise-linear ramp of amplitude amp at unit        *)
(* spacing, end points included.                                           *)
(***************************************************************************)
Elevation(amp, x) == amp + Max2(-amp, Min2(amp, x))

DefineTopo(x_min, x_max, amp) ==
    [k \in 1..(x_max - x_min + 1) |->
        <<Q(x_min + k - 1), Q(Elevation(amp, x_min + k - 1))>>]

\* np.interp-style evaluation of the topography at abscissa xq: linear
\* between the bracketing samples, the end sample outside the range.
InterpTopo(topo, xq) ==
    IF xq <= topo[1][1] THEN topo[1][2]
    ELSE IF xq >= topo[Len(topo)][1] THEN topo[Len(topo)][2]
    ELSE LET k == CHOOSE n \in 1..(Len(topo) - 1) :
                      topo[n][1] <= xq /\ xq < topo[n + 1][1]
         IN  topo[k][2]
             + ((topo[k + 1][2] - topo[k][2]) * (xq - topo[k][1]))
               \div (topo[k + 1][1] - topo[k][1])

(***************************************************************************)
(* Step 2: the survey line.  generate_dcip_sources_line walks the line     *)
(* from end_locs[1] to end_locs[2] at the station separation; station      *)
(* elevations are read off the topography.  For 'dipole-dipole' source ii  *)
(* is the current pair (ii, ii+1) and its receivers are the potential      *)
(* pairs (ii+1+r, ii+2+r), r = 1..num_rx, as far as the line reaches; a    *)
(* source left without any receiver is not emitted.                        *)
(***************************************************************************)
NumStations(end_locs, sep) == (end_locs[2] - end_locs[1]) \div sep + 1

Station(end_locs, sep, topo, k) ==
    <<Q(end_locs[1] + (k - 1) * sep),
      InterpTopo(topo, Q(end_locs[1] + (k - 1) * sep))>>

\* A receiver count that lets the last receiver pair start on the last
\* station but one short.
RxCountShort(nstn, ii, num_rx) == Max2(0, Min2(num_rx, nstn - ii - 2) - 1)

RxCount(nstn, ii, num_rx) == Max2(0, Min2(num_rx, nstn - ii - 2))

DipoleSource(end_locs, sep, topo, ii, num_rx) ==
    [location |-> <<Station(end_locs, sep, topo, ii),
                    Station(end_locs, sep, topo, ii + 1)>>,
     receiver_list |->
        [r \in 1..RxCount(NumStations(end_locs, sep), ii, num_rx) |->
            <<Station(end_locs, sep, topo, ii + 1 + r),
              Station(end_locs, sep, topo, ii + 2 + r)>>]]

GenerateSources(end_locs, topo, num_rx, sep) ==
    LET nstn == NumStations(end_locs, sep)
    IN  [ii \in 1..Max2(0, nstn - 3) |->
            DipoleSource(end_locs, sep, topo, ii, num_rx)]

\* dc.Survey(source_list)
Survey(source_list) == [source_list |-> source_list]

NoSurvey == Survey(<<>>)

\* survey.nD: one datum per receiver pair of every source
nD(sv) == SeqSum([i \in 1..Len(sv.source_list) |->
                    Len(sv.source_list[i].receiver_list)])

\* survey.unique_electrode_locations
UniqueElectrodeLocations(sv) ==
    UNION {{sv.source_list[i].location[1], sv.source_list[i].location[2]}
           \cup UNION {{sv.source_list[i].receiver_list[r][1],
                        sv.source_list[i].receiver_list[r][2]} :
                       r \in 1..Len(sv.source_list[i].receiver_list)} :
           i \in 1..Len(sv.source_list)}

\* The measurements in survey order: source by source, receiver by receiver.
MeasurementOrder(sv) ==
    Flatten([i \in 1..Len(sv.source_list) |->
                [r \in 1..Len(sv.source_list[i].receiver_list) |-> <<i, r>>]])

(***************************************************************************)
(* Step 3: the base mesh.                                                  *)
(***************************************************************************)
\* Rounding the logarithm up instead of to the nearest integer.
Log2Ceil(width, d) == CHOOSE k \in 0..width :
    Pow2(k) * d >= width /\ (k > 0 => Pow2(k - 1) * d < width)

\* int(np.round(np.log(width / d) / np.log(2.0))) for width >= d: the
\* integer k nearest to log2(width/d), i.e. 2^(k-1/2) < width/d < 2^(k+1/2),
\* compared after squaring (a tie would need width/d = 2^k * sqrt(2)).
Log2Round(width, d) ==
    CHOOSE k \in 0..width :
        /\ Pow2(2 * k) * d * d < 2 * width * width
        /\ width * width < Pow2(2 * k + 1) * d * d

\* nbcx, nbcy = 2 ** int(np.round(...))
BaseCellCount(width, d) == Pow2(Log2Round(width, d))

\* An origin code that centres the y axis too.
MeshOriginCentred == <<"C", "C">>

\* The origin code handed to TreeMesh: x centred, y with its top at 0.
MeshOriginCode == <<"C", "N">>

\* discretize's origin letters for an axis of n cells of width hq:
\* "0" starts the axis at 0, "C" centres it on 0, "N" ends it at 0.
AxisOrigin(letter, n, hq) ==
    CASE letter = "0" -> 0
      [] letter = "C" -> -((n * hq) \div 2)
      [] letter = "N" -> -(n * hq)

\* The root cells of a tree mesh of nx by ny finest cells: squares of side
\* min(nx, ny), each a record of its lower-left finest-cell index and its
\* side in finest cells.
RootCells(nx, ny) ==
    LET m == Min2(nx, ny)
    IN  Flatten([rj \in 1..(ny \div m) |->
                    [ri \in 1..(nx \div m) |->
                        [i |-> (ri - 1) * m, j |-> (rj - 1) * m, w |-> m]]])

\* TreeMesh([hx, hy], origin=code) with hx = [(d, nx)], hy = [(d, ny)]
TreeMesh(d, nx, ny, code) ==
    [h |-> Q(d), nx |-> nx, ny |-> ny,
     origin |-> <<AxisOrigin(code[1], nx, Q(d)), AxisOrigin(code[2], ny, Q(d))>>,
     cells |-> RootCells(nx, ny),
     finalized |-> FALSE]

NoMesh == [h |-> 0, nx |-> 0, ny |-> 0, origin |-> <<0, 0>>,
           cells |-> <<>>, finalized |-> FALSE]

\* np.mean(end_locations), in quarter units
MeanEnd(end_locs) == 2 * (end_locs[1] + end_locs[2])

\* np.max(topo_2d[:, -1])
TopoMax(topo) == SeqMax([k \in 1..Len(topo) |-> topo[k][2]])

\* mesh.origin = mesh.origin + np.r_[np.mean(end_locations), y_topo_max]
ShiftOrigin(m, end_locs, ytop) ==
    [m EXCEPT !.origin = <<m.origin[1] + MeanEnd(end_locs), m.origin[2] + ytop>>]

\* Geometry of the mesh domain and of a cell, in quarter units.
MeshLeft(m)   == m.origin[1]
MeshRight(m)  == m.origin[1] + m.nx * m.h
MeshBottom(m) == m.origin[2]
MeshTop(m)    == m.origin[2] + m.ny * m.h

CellLeft(m, c)   == m.origin[1] + c.i * m.h
CellRight(m, c)  == m.origin[1] + (c.i + c.w) * m.h
CellBottom(m, c) == m.origin[2] + c.j * m.h
CellTop(m, c)    == m.origin[2] + (c.j + c.w) * m.h

\* mesh.cell_centers
CellCenter(m, c) == <<CellLeft(m, c) + (c.w * m.h) \div 2,
                      CellBottom(m, c) + (c.w * m.h) \div 2>>

\* mesh.nC
nC(m) == Len(m.cells)

(***************************************************************************)
(* Step 3, continued: refinement and finalize.  A padding schedule lists,  *)
(* from the finest level up, the number of cells of that level to pad by;  *)
(* the pads accumulate from level to level.                                *)
(***************************************************************************)
PointPadding   == <<10, 8, 8, 8, 4, 4>>   \* refine_points(padding_cells_by_level=)
SurfacePadding == <<0, 0, 4, 4>>          \* refine_surface(padding_cells_by_level=)
SurfaceWindow  == 150                     \* np.abs(x_topo) < 150.0
RefineFinalizeDefault == TRUE             \* the default when finalize= is left out
RefineFinalize == FALSE                   \* finalize=False in both calls

\* Paddings a learner may try instead (advanced exercise of Step 3).
PointPaddings == {PointPadding, <<0, 0>>}

RECURSIVE Log2(_)
Log2(w) == IF w <= 1 THEN 0 ELSE 1 + Log2(w \div 2)

\* Padding, in finest cells, reached at level lv above the finest (lv = 0
\* is the finest level).
RECURSIVE PadRadius(_, _)
PadRadius(sched, lv) ==
    IF lv < 0 THEN 0
    ELSE sched[lv + 1] * Pow2(lv) + PadRadius(sched, lv - 1)

\* A box is <<xlo, xhi, ylo, yhi>> in quarter units.
Touches(m, c, box, pad) ==
    /\ CellLeft(m, c)   <= box[2] + pad
    /\ CellRight(m, c)  >= box[1] - pad
    /\ CellBottom(m, c) <= box[4] + pad
    /\ CellTop(m, c)    >= box[3] - pad

\* Must cell c be split?  It must when it is coarser than a level of the
\* schedule whose padded boxes it touches.
MustSplit(m, c, boxes, sched) ==
    /\ c.w > 1
    /\ sched # <<>>
    /\ LET lv == Min2(Log2(c.w) - 1, Len(sched) - 1)
       IN  \E b \in boxes : Touches(m, c, b, PadRadius(sched, lv) * m.h)

\* The leaves below cell c after refinement, in z-order.
RECURSIVE RefineCell(_, _, _, _)
RefineCell(m, c, boxes, sched) ==
    IF MustSplit(m, c, boxes, sched)
    THEN LET hw == c.w \div 2
         IN  RefineCell(m, [i |-> c.i,      j |-> c.j,      w |-> hw], boxes, sched)
             \o RefineCell(m, [i |-> c.i + hw, j |-> c.j,      w |-> hw], boxes, sched)
             \o RefineCell(m, [i |-> c.i,      j |-> c.j + hw, w |-> hw], boxes, sched)
             \o RefineCell(m, [i |-> c.i + hw, j |-> c.j + hw, w |-> hw], boxes, sched)
    ELSE <<c>>

\* mesh.finalize()
Finalize(m) == [m EXCEPT !.finalized = TRUE]

\* Refinement of every cell near the boxes; a finalized mesh takes no
\* further refinement.
RefineBoxes(m, boxes, sched, finalize) ==
    LET r == IF m.finalized THEN m
             ELSE [m EXCEPT !.cells =
                      Flatten([k \in 1..Len(m.cells) |->
                                  RefineCell(m, m.cells[k], boxes, sched)])]
    IN  IF finalize THEN Finalize(r) ELSE r

\* mesh.refine_points(points, padding_cells_by_level=sched, finalize=finalize)
RefinePoints(m, points, sched, finalize) ==
    RefineBoxes(m, {<<p[1], p[1], p[2], p[2]>> : p \in points}, sched, finalize)

\* topo_2d[np.abs(x_topo) < window, :]
TopoWindowRows(topo, xs, window) ==
    LET keep == {k \in 1..Len(topo) : k <= Len(xs) /\ Abs(xs[k]) < Q(window)}
        F[k \in 0..Len(topo)] ==
            IF k = 0 THEN <<>>
            ELSE IF k \in keep THEN Append(F[k - 1], topo[k]) ELSE F[k - 1]
    IN  F[Len(topo)]

\* mesh.refine_surface(xyz, padding_cells_by_level=sched, finalize=finalize):
\* the surface is the polyline through the rows of xyz.
RefineSurface(m, xyz, sched, finalize) ==
    RefineBoxes(m,
        {<<xyz[k][1], xyz[k][1], xyz[k][2], xyz[k][2]>> : k \in 1..Len(xyz)}
        \cup {<<xyz[k][1], xyz[k + 1][1],
                Min2(xyz[k][2], xyz[k + 1][2]), Max2(xyz[k][2], xyz[k + 1][2])>> :
               k \in 1..(Len(xyz) - 1)},
        sched, finalize)

(***************************************************************************)
(* Step 4: active cells.  active_from_xyz(mesh, topo_2d): one boolean per  *)
(* cell, true where the cell centre is on or below the topography          *)
(* interpolated at the centre's x.                                         *)
(***************************************************************************)
ActiveFromXYZ(m, topo) ==
    [k \in 1..nC(m) |->
        CellCenter(m, m.cells[k])[2] <= InterpTopo(topo, CellCenter(m, m.cells[k])[1])]

\* np.count_nonzero(mask[:k])
RECURSIVE CountTrue(_, _)
CountTrue(mask, k) ==
    IF k = 0 THEN 0
    ELSE (IF mask[k] THEN 1 ELSE 0) + CountTrue(mask, k - 1)

nActive(mask) == CountTrue(mask, Len(mask))

\* The mesh cell index of each active cell, in mesh order.
ActiveIndex(mask) == SelectSeq([k \in 1..Len(mask) |-> k], LAMBDA k : mask[k])

(***************************************************************************)
(* Step 5: the resistivity model on the active cells.  The regions are     *)
(* painted one after the other in RegionOrder, each assignment             *)
(* overwriting what an earlier one left in the cells it covers.            *)
(***************************************************************************)
BackgroundRho == 100      \* near surface resistivity
BasementRho   == 10       \* basement resistivity
CylinderRho   == 1000     \* resistivity of the cylinder

\* The regions with the cylinder painted before the basement.
RegionOrderCylinderFirst == <<"background", "cylinder", "basement">>

RegionOrder == <<"background", "basement", "cylinder">>

RegionValue(name) ==
    CASE name = "background" -> BackgroundRho
      [] name = "basement"   -> BasementRho
      [] name = "cylinder"   -> CylinderRho

\* geo holds the basement elevation and the cylinder's centre and radius.
\* Basement: cell_centers[:, 1] < basement_z; cylinder:
\* get_indices_sphere(center, radius, cell_centers), distance < radius.
InRegion(name, ctr, geo) ==
    CASE name = "background" -> TRUE
      [] name = "basement"   -> ctr[2] < geo.basement_z
      [] name = "cylinder"   ->
            (ctr[1] - geo.center[1]) * (ctr[1] - geo.center[1])
          + (ctr[2] - geo.center[2]) * (ctr[2] - geo.center[2])
          < geo.radius * geo.radius

\* The assignments from the n-th on, applied in order to the model over the
\* active cells with the given centres.
RECURSIVE Paint(_, _, _, _, _)
Paint(model, order, n, ctrs, geo) ==
    IF n > Len(order) THEN model
    ELSE Paint([a \in 1..Len(model) |->
                   IF InRegion(order[n], ctrs[a], geo)
                   THEN RegionValue(order[n]) ELSE model[a]],
               order, n + 1, ctrs, geo)

\* mesh.cell_centers[active_cells, :]
ActiveCenters(m, mask) ==
    LET idx == ActiveIndex(mask)
    IN  [a \in 1..Len(idx) |-> CellCenter(m, m.cells[idx[a]])]

BuildModel(m, mask, geo) ==
    Paint([a \in 1..nActive(mask) |-> 0], RegionOrder, 1, ActiveCenters(m, mask), geo)

\* Log-resistivities are held in decades, so that the log-to-linear
\* transform stays integral: LogRho(1000) = 3 and ExpRho(3) = 1000.
RECURSIVE LogRho(_)
LogRho(v) == IF v < 10 THEN 0 ELSE 1 + LogRho(v \div 10)

RECURSIVE ExpRho(_)
ExpRho(e) == IF e <= 0 THEN 1 ELSE 10 * ExpRho(e - 1)

(***************************************************************************)
(* Step 6: mappings from the model to the mesh.                            *)
(***************************************************************************)
AirResistivity == 100000000   \* 1e8, the value for the inactive cells
NaN            == -1          \* np.nan, the fill of the plotting map

\* maps.InjectActiveCells(mesh, active_cells, fill)
InjectActiveCells(m, mask, fill) ==
    [n_cells |-> nC(m), active |-> mask, fill |-> fill, exp |-> FALSE]

\* active_map * maps.ExpMap(): exponentiate, then inject
ComposeExp(map) == [map EXCEPT !.exp = TRUE]

NoMap == [n_cells |-> 0, active |-> <<>>, fill |-> 0, exp |-> FALSE]

\* map * model
ApplyMap(map, model) ==
    [k \in 1..map.n_cells |->
        IF map.active[k]
        THEN IF map.exp THEN ExpRho(model[CountTrue(map.active, k)])
             ELSE model[CountTrue(map.active, k)]
        ELSE map.fill]

(***************************************************************************)
(* Step 7: draping.  drape_electrodes_on_topography(mesh, active_cells)    *)
(* moves an electrode onto the discrete surface: over the centre of the    *)
(* nearest column of active cells, at the top of its highest active cell.  *)
(***************************************************************************)
\* The active cells with no active cell lying on top of them.
SurfaceCells(m, mask) ==
    {k \in 1..nC(m) :
        /\ mask[k]
        /\ ~ \E u \in 1..nC(m) :
                /\ mask[u]
                /\ CellBottom(m, m.cells[u]) = CellTop(m, m.cells[k])
                /\ CellLeft(m, m.cells[u]) < CellRight(m, m.cells[k])
                /\ CellRight(m, m.cells[u]) > CellLeft(m, m.cells[k])}

\* The surface cell whose centre is nearest in x (the leftmost such column,
\* and in it the highest cell).
NearestSurfaceCell(m, mask, xq) ==
    LET S    == SurfaceCells(m, mask)
        d(k) == Abs(CellCenter(m, m.cells[k])[1] - xq)
        near == {k \in S : \A u \in S : d(k) <= d(u)}
        left == {k \in near : \A u \in near :
                    CellCenter(m, m.cells[k])[1] <= CellCenter(m, m.cells[u])[1]}
    IN  CHOOSE k \in left : \A u \in left :
            CellTop(m, m.cells[k]) >= CellTop(m, m.cells[u])

\* Draping that keeps the electrode's x.
DrapePointKeepX(m, mask, loc) ==
    <<loc[1], CellTop(m, m.cells[NearestSurfaceCell(m, mask, loc[1])])>>

DrapePoint(m, mask, loc) ==
    LET k == NearestSurfaceCell(m, mask, loc[1])
    IN  <<CellCenter(m, m.cells[k])[1], CellTop(m, m.cells[k])>>

DrapeElectrodes(sv, m, mask) ==
    [source_list |->
        [i \in 1..Len(sv.source_list) |->
            [location |-> <<DrapePoint(m, mask, sv.source_list[i].location[1]),
                            DrapePoint(m, mask, sv.source_list[i].location[2])>>,
             receiver_list |->
                [r \in 1..Len(sv.source_list[i].receiver_list) |->
                    <<DrapePoint(m, mask, sv.source_list[i].receiver_list[r][1]),
                      DrapePoint(m, mask, sv.source_list[i].receiver_list[r][2])>>]]]]

(***************************************************************************)
(* Steps 8 and 9: the forward simulation is an external solver; the model  *)
(* keeps what the notebook relies on: one datum per measurement, in survey *)
(* order, determined by the measurement's geometry and the mapped          *)
(* resistivities.  A datum remembers the measurement it belongs to.        *)
(***************************************************************************)
\* Geometric factor of the r-th receiver of a dipole-dipole source, up to
\* a common scale: proportional to 1 / (r (r+1) (r+2)).
RECURSIVE GeomScale(_)
GeomScale(n) == IF n <= 0 THEN 1 ELSE n * (n + 1) * (n + 2) * GeomScale(n - 1)

GeometricFactor(num_rx, r) == GeomScale(num_rx) \div (r * (r + 1) * (r + 2))

\* The resistivity the measurement senses: that of the ground under the
\* midpoint of its receiver pair.
SensedRho(m, mask, rho, rx) ==
    rho[NearestSurfaceCell(m, mask, (rx[1][1] + rx[2][1]) \div 2)]

\* simulation.dpred(model)
Fields(m, mask, sv, rho, dtype, num_rx) ==
    LET order == MeasurementOrder(sv)
    IN  [k \in 1..Len(order) |->
            LET rx  == sv.source_list[order[k][1]].receiver_list[order[k][2]]
                app == SensedRho(m, mask, rho, rx)
            IN  [datum |-> order[k],
                 value |-> IF dtype = "volt"
                           THEN app * GeometricFactor(num_rx, order[k][2])
                           ELSE app]]

\* apparent_resistivity_from_voltage(survey, dpred): entry k is datum k
\* divided by the geometric factor of the survey's k-th measurement.
ApparentResistivityFromVoltage(sv, data, num_rx) ==
    LET order == MeasurementOrder(sv)
    IN  [k \in 1..Len(data) |->
            [datum |-> data[k].datum,
             value |-> data[k].value \div GeometricFactor(num_rx, order[k][2])]]

(***************************************************************************)
(* The notebook: its cells in order, and the state before the first runs.  *)
(***************************************************************************)
\* The cells with the simulation constructed and run before the draping.
CellOrderDrapeLate ==
    <<"topography", "plot_topography", "survey", "plot_pseudo", "inspect_survey",
      "mesh_params", "base_mesh", "refine_points", "refine_surface", "finalize",
      "plot_mesh", "inspect_mesh", "active_cells", "model", "log_model",
      "plot_model", "mapping", "simulation", "predict", "drape", "postprocess",
      "done">>

\* The cells with the active-cell mask computed on the base mesh, before
\* the refinement.
CellOrderActiveEarly ==
    <<"topography", "plot_topography", "survey", "plot_pseudo", "inspect_survey",
      "mesh_params", "base_mesh", "active_cells", "refine_points",
      "refine_surface", "finalize", "plot_mesh", "inspect_mesh", "model",
      "log_model", "plot_model", "mapping", "drape", "simulation", "predict",
      "postprocess", "done">>

CellOrder ==
    <<"topography", "plot_topography", "survey", "plot_pseudo", "inspect_survey",
      "mesh_params", "base_mesh", "refine_points", "refine_surface", "finalize",
      "plot_mesh", "inspect_mesh", "active_cells", "model", "log_model",
      "plot_model", "mapping", "drape", "simulation", "predict", "postprocess",
      "done">>

CellIndex(c) == CHOOSE n \in 1..Len(CellOrder) : CellOrder[n] = c

NextCell(c) == CellOrder[CellIndex(c) + 1]

\* Has the run got past cell c?
Past(c) == pc # "failed" /\ CellIndex(pc) > CellIndex(c)

(***************************************************************************)
(* Names.  The cells that come with code read and assign the names their   *)
(* code reads and assigns; an exercise cell binds the names its prompt     *)
(* names, and the learner may bind there further names that later code     *)
(* reads but no prompt names.                                              *)
(***************************************************************************)
\* The cells that come with code.
ProvidedCells ==
    {"plot_topography", "plot_pseudo", "base_mesh", "refine_points",
     "refine_surface", "finalize", "plot_mesh", "plot_model", "postprocess"}

\* The names a statement of a provided cell reads before it assigns them.
Reads(c) ==
    CASE c = "plot_topography" -> {"topo_2d"}
      [] c = "plot_pseudo"     -> {"survey"}
      [] c = "base_mesh"       -> {"dom_width_x", "dom_width_y", "dh", "topo_2d",
                                   "end_locations"}
      [] c = "refine_points"   -> {"survey", "mesh"}
      [] c = "refine_surface"  -> {"mesh", "topo_2d", "x_topo"}
      [] c = "finalize"        -> {"mesh"}
      [] c = "plot_mesh"       -> {"mesh", "y_topo_max"}
      [] c = "plot_model"      -> {"mesh", "active_cells", "resistivity_model",
                                   "y_topo_max"}
      [] c = "postprocess"     -> {"data_type", "survey", "dpred"}
      [] OTHER                 -> {}

\* The names a provided cell assigns.
Assigns(c) ==
    CASE c = "base_mesh"     -> {"nbcx", "nbcy", "mesh", "y_topo_max"}
      [] c = "refine_points" -> {"unique_locations"}
      [] c = "plot_model"    -> {"plotting_map"}
      [] c = "postprocess"   -> {"apparent_resistivity"}
      [] OTHER               -> {}

\* The names, among those provided cells read, that the prompt of an
\* exercise cell names.
PromptNames(c) ==
    CASE c = "topography"   -> {"topo_2d"}
      [] c = "survey"       -> {"survey"}
      [] c = "mesh_params"  -> {"dh", "dom_width_x", "dom_width_y"}
      [] c = "active_cells" -> {"active_cells"}
      [] c = "predict"      -> {"dpred"}
      [] OTHER              -> {}

\* The names provided cells read that occur in no prompt, at the exercise
\* cell whose values they would hold.
UnpromptedNames(c) ==
    CASE c = "topography" -> {"x_topo"}
      [] c = "survey"     -> {"end_locations", "data_type"}
      [] c = "model"      -> {"resistivity_model"}
      [] OTHER            -> {}

\* Running provided cell c raises a NameError.
NameError(c) == ~(Reads(c) \subseteq namespace)

\* An exercise cell filled in: the names of its prompt, and any of the
\* unprompted ones.
FillIn(c) ==
    \E extra \in SUBSET UnpromptedNames(c) :
        namespace' = namespace \cup PromptNames(c) \cup extra

Init ==
    /\ pc = "topography"
    /\ namespace = {}
    /\ topo_2d = <<>>
    /\ x_topo = <<>>
    /\ end_locations = <<0, 0>>
    /\ data_type = ""
    /\ num_rx_per_src = 0
    /\ station_separation = 0
    /\ survey = NoSurvey
    /\ dh = 0
    /\ dom_width_x = 0
    /\ dom_width_y = 0
    /\ nbcx = 0
    /\ nbcy = 0
    /\ y_topo_max = 0
    /\ mesh = NoMesh
    /\ unique_locations = {}
    /\ active_cells = <<>>
    /\ resistivity_model = <<>>
    /\ log_resistivity_model = <<>>
    /\ model_geometry = [basement_z |-> 0, center |-> <<0, 0>>, radius |-> 0]
    /\ plotted_model = <<>>
    /\ resistivity_map = NoMap
    /\ simulation = "none"
    /\ dpred = <<>>
    /\ apparent_resistivity = <<>>
    /\ mesh_calls = <<>>
    /\ survey_writes = <<>>

(***************************************************************************)
(* Step 1.                                                                 *)
(***************************************************************************)
DefineTopography ==
    /\ pc = "topography"
    /\ \E amp \in 0..MaxAmp :
          topo_2d' = DefineTopo(-TopoHalfWidth, TopoHalfWidth, amp)
    /\ x_topo' = [k \in 1..Len(topo_2d') |-> topo_2d'[k][1]]
    /\ FillIn(pc)
    /\ pc' = NextCell(pc)
    /\ UNCHANGED <<end_locations, data_type, survey, dh, dom_width_x, dom_width_y,
                   nbcx, nbcy, y_topo_max, mesh, unique_locations, active_cells,
                   resistivity_model, log_resistivity_model, model_geometry,
                   plotted_model, resistivity_map, simulation, dpred,
                   apparent_resistivity, num_rx_per_src, station_separation,
                   mesh_calls, survey_writes>>

\* A cell that only reads: plots and the "extract the following items" cells.
ReadOnlyCell(c) ==
    /\ pc = c
    /\ pc' = IF NameError(pc) THEN "failed" ELSE NextCell(pc)
    /\ UNCHANGED namespace
    /\ UNCHANGED <<topo_2d, x_topo, end_locations, data_type, survey, dh,
                   dom_width_x, dom_width_y, nbcx, nbcy, y_topo_max, mesh,
                   unique_locations, active_cells, resistivity_model,
                   log_resistivity_model, model_geometry, plotted_model,
                   resistivity_map, simulation, dpred, apparent_resistivity,
                   num_rx_per_src, station_separation, mesh_calls, survey_writes>>

PlotTopography == ReadOnlyCell("plot_topography")

(***************************************************************************)
(* Step 2.                                                                 *)
(***************************************************************************)
DataTypes == {"volt", "apparent_resistivity"}

\* The survey cell, for end locations, spacings and receiver counts drawn
\* from the given sets; lines too short for a single measurement are left
\* out.
DefineSurveyFrom(ends, seps, rxs) ==
    /\ pc = "survey"
    /\ \E e \in ends, sep \in seps, nrx \in rxs, dt \in DataTypes :
          /\ NumStations(e, sep) >= 4
          /\ end_locations' = e
          /\ station_separation' = sep
          /\ num_rx_per_src' = nrx
          /\ data_type' = dt
          /\ survey' = Survey(GenerateSources(e, topo_2d, nrx, sep))
    /\ FillIn(pc)
    /\ pc' = NextCell(pc)
    /\ UNCHANGED <<topo_2d, x_topo, dh, dom_width_x, dom_width_y, nbcx, nbcy,
                   y_topo_max, mesh, unique_locations, active_cells,
                   resistivity_model, log_resistivity_model, model_geometry,
                   plotted_model, resistivity_map, simulation, dpred,
                   apparent_resistivity, mesh_calls, survey_writes>>

DefineSurvey ==
    DefineSurveyFrom({<<-SurveyHalf, SurveyHalf>>, <<-SurveyHalf, SurveyHalf + 1>>},
                     {1}, {MaxRx})

PlotPseudoLocations == ReadOnlyCell("plot_pseudo")

InspectSurvey == ReadOnlyCell("inspect_survey")

(***************************************************************************)
(* Step 3.  The refinement cell holds two statements, which are two steps  *)
(* of the run.                                                             *)
(***************************************************************************)
DefineMeshParams ==
    /\ pc = "mesh_params"
    /\ \E d \in 1..MaxDh :
          \E wx \in d..MaxWidth, wy \in d..MaxDepth :
              /\ dh' = d
              /\ dom_width_x' = wx
              /\ dom_width_y' = wy
    /\ FillIn(pc)
    /\ pc' = NextCell(pc)
    /\ UNCHANGED <<topo_2d, x_topo, end_locations, data_type, survey, nbcx,
                   nbcy, y_topo_max, mesh, unique_locations, active_cells,
                   resistivity_model, log_resistivity_model, model_geometry,
                   plotted_model, resistivity_map, simulation, dpred,
                   apparent_resistivity, num_rx_per_src, station_separation,
                   mesh_calls, survey_writes>>

\* end_locations is read by the last statement of the cell: when it is not
\* bound the statements before it have run and the origin is not shifted.
BaseMesh ==
    /\ pc = "base_mesh"
    /\ nbcx' = BaseCellCount(dom_width_x, dh)
    /\ nbcy' = BaseCellCount(dom_width_y, dh)
    /\ y_topo_max' = TopoMax(topo_2d)
    /\ namespace' = namespace \cup Assigns(pc)
    /\ IF NameError(pc)
       THEN /\ mesh' = TreeMesh(dh, nbcx', nbcy', MeshOriginCode)
            /\ mesh_calls' = Append(mesh_calls, "TreeMesh")
            /\ pc' = "failed"
       ELSE /\ mesh' = ShiftOrigin(TreeMesh(dh, nbcx', nbcy', MeshOriginCode),
                                   end_locations, y_topo_max')
            /\ mesh_calls' = mesh_calls \o <<"TreeMesh", "origin">>
            /\ pc' = NextCell(pc)
    /\ UNCHANGED <<topo_2d, x_topo, end_locations, data_type, survey, dh,
                   dom_width_x, dom_width_y, unique_locations, active_cells,
                   resistivity_model, log_resistivity_model, model_geometry,
                   plotted_model, resistivity_map, simulation, dpred,
                   apparent_resistivity, num_rx_per_src, station_separation,
                   survey_writes>>

\* What a refinement call adds to the record of calls on the mesh.
RefineCall(name, finalize) ==
    IF finalize THEN <<name, "finalize">> ELSE <<name>>

RefinePointsStep ==
    /\ pc = "refine_points"
    /\ IF NameError(pc)
       THEN /\ pc' = "failed"
            /\ UNCHANGED <<unique_locations, mesh, mesh_calls, namespace>>
       ELSE /\ unique_locations' = UniqueElectrodeLocations(survey)
            /\ \E sched \in PointPaddings :
                  mesh' = RefinePoints(mesh, unique_locations', sched, RefineFinalize)
            /\ mesh_calls' = mesh_calls \o RefineCall("refine_points", RefineFinalize)
            /\ namespace' = namespace \cup Assigns(pc)
            /\ pc' = NextCell(pc)
    /\ UNCHANGED <<topo_2d, x_topo, end_locations, data_type, survey, dh,
                   dom_width_x, dom_width_y, nbcx, nbcy, y_topo_max,
                   active_cells, resistivity_model, log_resistivity_model,
                   model_geometry, plotted_model, resistivity_map, simulation,
                   dpred, apparent_resistivity, num_rx_per_src,
                   station_separation, survey_writes>>

RefineSurfaceStep ==
    /\ pc = "refine_surface"
    /\ IF NameError(pc)
       THEN /\ pc' = "failed"
            /\ UNCHANGED <<mesh, mesh_calls, namespace>>
       ELSE /\ mesh' = RefineSurface(mesh, TopoWindowRows(topo_2d, x_topo, SurfaceWindow),
                                     SurfacePadding, RefineFinalize)
            /\ mesh_calls' = mesh_calls \o RefineCall("refine_surface", RefineFinalize)
            /\ namespace' = namespace \cup Assigns(pc)
            /\ pc' = NextCell(pc)
    /\ UNCHANGED <<topo_2d, x_topo, end_locations, data_type, survey, dh,
                   dom_width_x, dom_width_y, nbcx, nbcy, y_topo_max,
                   unique_locations, active_cells, resistivity_model,
                   log_resistivity_model, model_geometry, plotted_model,
                   resistivity_map, simulation, dpred, apparent_resistivity,
                   num_rx_per_src, station_separation, survey_writes>>

FinalizeMesh ==
    /\ pc = "finalize"
    /\ IF NameError(pc)
       THEN /\ pc' = "failed"
            /\ UNCHANGED <<mesh, mesh_calls, namespace>>
       ELSE /\ mesh' = Finalize(mesh)
            /\ mesh_calls' = Append(mesh_calls, "finalize")
            /\ namespace' = namespace \cup Assigns(pc)
            /\ pc' = NextCell(pc)
    /\ UNCHANGED <<topo_2d, x_topo, end_locations, data_type, survey, dh,
                   dom_width_x, dom_width_y, nbcx, nbcy, y_topo_max,
                   unique_locations, active_cells, resistivity_model,
                   log_resistivity_model, model_geometry, plotted_model,
                   resistivity_map, simulation, dpred, apparent_resistivity,
                   num_rx_per_src, station_separation, survey_writes>>

PlotMesh == ReadOnlyCell("plot_mesh")

InspectMesh == ReadOnlyCell("inspect_mesh")

(***************************************************************************)
(* Step 4.                                                                 *)
(***************************************************************************)
ActiveCells ==
    /\ pc = "active_cells"
    /\ active_cells' = ActiveFromXYZ(mesh, topo_2d)
    /\ FillIn(pc)
    /\ pc' = NextCell(pc)
    /\ UNCHANGED <<topo_2d, x_topo, end_locations, data_type, survey, dh,
                   dom_width_x, dom_width_y, nbcx, nbcy, y_topo_max, mesh,
                   unique_locations, resistivity_model, log_resistivity_model,
                   model_geometry, plotted_model, resistivity_map, simulation,
                   dpred, apparent_resistivity, num_rx_per_src,
                   station_separation, mesh_calls, survey_writes>>

(***************************************************************************)
(* Step 5: the model, and in the second cell its logarithm when the        *)
(* learner takes the advanced exercise.                                    *)
(***************************************************************************)
DefineModel ==
    /\ pc = "model"
    /\ \E bz \in 0..MaxBasement, rad \in 1..MaxRadius :
          model_geometry' = [basement_z |-> Q(bz), center |-> <<Q(1), Q(0)>>,
                             radius |-> Q(rad)]
    /\ resistivity_model' = BuildModel(mesh, active_cells, model_geometry')
    /\ FillIn(pc)
    /\ pc' = NextCell(pc)
    /\ UNCHANGED <<topo_2d, x_topo, end_locations, data_type, survey, dh,
                   dom_width_x, dom_width_y, nbcx, nbcy, y_topo_max, mesh,
                   unique_locations, active_cells, log_resistivity_model,
                   plotted_model, resistivity_map, simulation, dpred,
                   apparent_resistivity, num_rx_per_src, station_separation,
                   mesh_calls, survey_writes>>

DefineLogModel ==
    /\ pc = "log_model"
    /\ \E advanced \in BOOLEAN :
          log_resistivity_model' =
              IF advanced
              THEN [a \in 1..Len(resistivity_model) |-> LogRho(resistivity_model[a])]
              ELSE <<>>
    /\ FillIn(pc)
    /\ pc' = NextCell(pc)
    /\ UNCHANGED <<topo_2d, x_topo, end_locations, data_type, survey, dh,
                   dom_width_x, dom_width_y, nbcx, nbcy, y_topo_max, mesh,
                   unique_locations, active_cells, resistivity_model,
                   model_geometry, plotted_model, resistivity_map, simulation,
                   dpred, apparent_resistivity, num_rx_per_src,
                   station_separation, mesh_calls, survey_writes>>

\* resistivity_model is read after plotting_map is assigned.
PlotModel ==
    /\ pc = "plot_model"
    /\ namespace' = namespace \cup Assigns(pc)
    /\ IF NameError(pc)
       THEN /\ pc' = "failed"
            /\ UNCHANGED plotted_model
       ELSE /\ plotted_model' = ApplyMap(InjectActiveCells(mesh, active_cells, NaN),
                                         resistivity_model)
            /\ pc' = NextCell(pc)
    /\ UNCHANGED <<topo_2d, x_topo, end_locations, data_type, survey, dh,
                   dom_width_x, dom_width_y, nbcx, nbcy, y_topo_max, mesh,
                   unique_locations, active_cells, resistivity_model,
                   log_resistivity_model, model_geometry, resistivity_map,
                   simulation, dpred, apparent_resistivity, num_rx_per_src,
                   station_separation, mesh_calls, survey_writes>>

(***************************************************************************)
(* Step 6.                                                                 *)
(***************************************************************************)
\* The mapping cell reusing the fill of the plotting map.
DefineMappingPlottingFill ==
    /\ pc = "mapping"
    /\ resistivity_map' =
          IF log_resistivity_model # <<>>
          THEN ComposeExp(InjectActiveCells(mesh, active_cells, NaN))
          ELSE InjectActiveCells(mesh, active_cells, NaN)
    /\ FillIn(pc)
    /\ pc' = NextCell(pc)
    /\ UNCHANGED <<topo_2d, x_topo, end_locations, data_type, survey, dh,
                   dom_width_x, dom_width_y, nbcx, nbcy, y_topo_max, mesh,
                   unique_locations, active_cells, resistivity_model,
                   log_resistivity_model, model_geometry, plotted_model,
                   simulation, dpred, apparent_resistivity, num_rx_per_src,
                   station_separation, mesh_calls, survey_writes>>

DefineMapping ==
    /\ pc = "mapping"
    /\ resistivity_map' =
          IF log_resistivity_model # <<>>
          THEN ComposeExp(InjectActiveCells(mesh, active_cells, AirResistivity))
          ELSE InjectActiveCells(mesh, active_cells, AirResistivity)
    /\ FillIn(pc)
    /\ pc' = NextCell(pc)
    /\ UNCHANGED <<topo_2d, x_topo, end_locations, data_type, survey, dh,
                   dom_width_x, dom_width_y, nbcx, nbcy, y_topo_max, mesh,
                   unique_locations, active_cells, resistivity_model,
                   log_resistivity_model, model_geometry, plotted_model,
                   simulation, dpred, apparent_resistivity, num_rx_per_src,
                   station_separation, mesh_calls, survey_writes>>

\* The model vector that goes with the mapping.
ModelVector == IF resistivity_map.exp THEN log_resistivity_model ELSE resistivity_model

(***************************************************************************)
(* Step 7.  With no active cell there is no discrete surface to drape on   *)
(* and the run stops.                                                      *)
(***************************************************************************)
DrapeSurvey ==
    /\ pc = "drape"
    /\ IF SurfaceCells(mesh, active_cells) = {}
       THEN /\ pc' = "failed"
            /\ UNCHANGED <<survey, survey_writes, namespace>>
       ELSE /\ survey' = DrapeElectrodes(survey, mesh, active_cells)
            /\ survey_writes' = Append(survey_writes, "drape")
            /\ FillIn(pc)
            /\ pc' = NextCell(pc)
    /\ UNCHANGED <<topo_2d, x_topo, end_locations, data_type, dh, dom_width_x,
                   dom_width_y, nbcx, nbcy, y_topo_max, mesh, unique_locations,
                   active_cells, resistivity_model, log_resistivity_model,
                   model_geometry, plotted_model, resistivity_map, simulation,
                   dpred, apparent_resistivity, num_rx_per_src,
                   station_separation, mesh_calls>>

(***************************************************************************)
(* Steps 8 and 9.  As in step 7, with no active cell there is no ground to *)
(* simulate and the run stops.                                             *)
(***************************************************************************)
DefineSimulation ==
    /\ pc = "simulation"
    /\ simulation' = "Simulation2DNodal"
    /\ FillIn(pc)
    /\ pc' = NextCell(pc)
    /\ UNCHANGED <<topo_2d, x_topo, end_locations, data_type, survey, dh,
                   dom_width_x, dom_width_y, nbcx, nbcy, y_topo_max, mesh,
                   unique_locations, active_cells, resistivity_model,
                   log_resistivity_model, model_geometry, plotted_model,
                   resistivity_map, dpred, apparent_resistivity,
                   num_rx_per_src, station_separation, mesh_calls,
                   survey_writes>>

Predict ==
    /\ pc = "predict"
    /\ IF SurfaceCells(mesh, active_cells) = {}
       THEN /\ pc' = "failed"
            /\ UNCHANGED <<dpred, namespace>>
       ELSE /\ dpred' = Fields(mesh, active_cells, survey,
                               ApplyMap(resistivity_map, ModelVector),
                               data_type, num_rx_per_src)
            /\ FillIn(pc)
            /\ pc' = NextCell(pc)
    /\ UNCHANGED <<topo_2d, x_topo, end_locations, data_type, survey, dh,
                   dom_width_x, dom_width_y, nbcx, nbcy, y_topo_max, mesh,
                   unique_locations, active_cells, resistivity_model,
                   log_resistivity_model, model_geometry, plotted_model,
                   resistivity_map, simulation, apparent_resistivity,
                   num_rx_per_src, station_separation, mesh_calls,
                   survey_writes>>

\* The plotting cell converting and copying the not yet assigned
\* apparent_resistivity instead of dpred.
PostProcessStale ==
    /\ pc = "postprocess"
    /\ IF NameError(pc)
       THEN /\ pc' = "failed"
            /\ UNCHANGED <<apparent_resistivity, namespace>>
       ELSE /\ apparent_resistivity' =
                  IF data_type = "volt"
                  THEN ApparentResistivityFromVoltage(survey, apparent_resistivity,
                                                      num_rx_per_src)
                  ELSE apparent_resistivity
            /\ namespace' = namespace \cup Assigns(pc)
            /\ pc' = NextCell(pc)
    /\ UNCHANGED <<topo_2d, x_topo, end_locations, data_type, survey, dh,
                   dom_width_x, dom_width_y, nbcx, nbcy, y_topo_max, mesh,
                   unique_locations, active_cells, resistivity_model,
                   log_resistivity_model, model_geometry, plotted_model,
                   resistivity_map, simulation, dpred, num_rx_per_src,
                   station_separation, mesh_calls, survey_writes>>

\* The plotting cell converting whatever the data type.
PostProcessAlwaysConvert ==
    /\ pc = "postprocess"
    /\ IF NameError(pc)
       THEN /\ pc' = "failed"
            /\ UNCHANGED <<apparent_resistivity, namespace>>
       ELSE /\ apparent_resistivity' =
                  ApparentResistivityFromVoltage(survey, dpred, num_rx_per_src)
            /\ namespace' = namespace \cup Assigns(pc)
            /\ pc' = NextCell(pc)
    /\ UNCHANGED <<topo_2d, x_topo, end_locations, data_type, survey, dh,
                   dom_width_x, dom_width_y, nbcx, nbcy, y_topo_max, mesh,
                   unique_locations, active_cells, resistivity_model,
                   log_resistivity_model, model_geometry, plotted_model,
                   resistivity_map, simulation, dpred, num_rx_per_src,
                   station_separation, mesh_calls, survey_writes>>

\* The plotting cell: its branch on data_type.
PostProcess ==
    /\ pc = "postprocess"
    /\ IF NameError(pc)
       THEN /\ pc' = "failed"
            /\ UNCHANGED <<apparent_resistivity, namespace>>
       ELSE /\ apparent_resistivity' =
                  IF data_type = "volt"
                  THEN ApparentResistivityFromVoltage(survey, dpred, num_rx_per_src)
                  ELSE dpred
            /\ namespace' = namespace \cup Assigns(pc)
            /\ pc' = NextCell(pc)
    /\ UNCHANGED <<topo_2d, x_topo, end_locations, data_type, survey, dh,
                   dom_width_x, dom_width_y, nbcx, nbcy, y_topo_max, mesh,
                   unique_locations, active_cells, resistivity_model,
                   log_resistivity_model, model_geometry, plotted_model,
                   resistivity_map, simulation, dpred, num_rx_per_src,
                   station_separation, mesh_calls, survey_writes>>

Next ==
    \/ DefineTopography
    \/ PlotTopography
    \/ DefineSurvey
    \/ PlotPseudoLocations
    \/ InspectSurvey
    \/ DefineMeshParams
    \/ BaseMesh
    \/ RefinePointsStep
    \/ RefineSurfaceStep
    \/ FinalizeMesh
    \/ PlotMesh
    \/ InspectMesh
    \/ ActiveCells
    \/ DefineModel
    \/ DefineLogModel
    \/ PlotModel
    \/ DefineMapping
    \/ DrapeSurvey
    \/ DefineSimulation
    \/ Predict
    \/ PostProcess

Spec == Init /\ [][Next]_vars

(***************************************************************************)
(* The survey line on its own: Steps 1 and 2 with the end locations,       *)
(* spacings and receiver counts around the values of the Step 2 prompt.    *)
(***************************************************************************)
DefineSurveyLine ==
    DefineSurveyFrom(
        {<<PromptEndLocations[1], x2>> :
            x2 \in (PromptEndLocations[2] - LineSlack)..PromptEndLocations[2]},
        {PromptSpacing * f : f \in 1..MaxSepFactor},
        1..PromptRxPerSrc)

NextSurvey ==
    \/ DefineTopography
    \/ PlotTopography
    \/ DefineSurveyLine

SpecSurvey == Init /\ [][NextSurvey]_vars

(***************************************************************************)
(* Properties.                                                             *)
(***************************************************************************)
IsPow2(n) == \E k \in 0..(MaxWidth + 1) : n = Pow2(k)

\* Is a at least as near to b in ratio as c is?
NearerInRatio(a, b, c) ==
    Max2(a, b) * Min2(c, b) <= Max2(c, b) * Min2(a, b)

\* C1 as claimed: on each axis the base cell count is the smallest power of
\* two n with dh * n >= the requested domain width.
C1_SmallestCoveringPowerOfTwo ==
    Past("base_mesh") =>
        /\ IsPow2(nbcx) /\ IsPow2(nbcy)
        /\ dh * nbcx >= dom_width_x /\ (nbcx > 1 => dh * (nbcx \div 2) < dom_width_x)
        /\ dh * nbcy >= dom_width_y /\ (nbcy > 1 => dh * (nbcy \div 2) < dom_width_y)

\* C1 as amended: on each axis the base cell count n is a power of two and
\* dh * n is, among the widths dh * 2^k, the one nearest in ratio to the
\* requested domain width; it is more than the width over sqrt(2) but may
\* be less than the width.
C1_NearestPowerOfTwo ==
    Past("base_mesh") =>
        /\ IsPow2(nbcx) /\ IsPow2(nbcy)
        /\ \A k \in 0..(MaxWidth + 1) :
              /\ NearerInRatio(dh * nbcx, dom_width_x, dh * Pow2(k))
              /\ NearerInRatio(dh * nbcy, dom_width_y, dh * Pow2(k))
        /\ 2 * (dh * nbcx) * (dh * nbcx) > dom_width_x * dom_width_x
        /\ 2 * (dh * nbcy) * (dh * nbcy) > dom_width_y * dom_width_y

\* A run in which the base grid is narrower than requested along x and
\* taller than requested along y.
C1_Witness ==
    /\ Past("base_mesh")
    /\ dh * nbcx < dom_width_x
    /\ dh * nbcy > dom_width_y

Count(seq, v) == Cardinality({k \in 1..Len(seq) : seq[k] = v})

\* C2: both refinement passes run before finalize and leave the mesh
\* unfinalized, finalize runs exactly once, and once the mesh is finalized
\* no call changes it again.
C2_RefineBeforeFinalizeOnce ==
    /\ [](/\ Count(mesh_calls, "finalize") <= 1
          /\ mesh.finalized <=> Count(mesh_calls, "finalize") = 1
          /\ Past("finalize") => mesh.finalized
          /\ pc \in {"refine_surface", "finalize"} => ~mesh.finalized
          /\ \A k \in 1..Len(mesh_calls) :
                mesh_calls[k] = "finalize" =>
                    /\ k = Len(mesh_calls)
                    /\ \E a \in 1..(k - 1) : mesh_calls[a] = "refine_points"
                    /\ \E b \in 1..(k - 1) : mesh_calls[b] = "refine_surface")
    /\ [][mesh.finalized => mesh' = mesh /\ mesh_calls' = mesh_calls]_vars

\* A finished run whose mesh was refined below its root cells and then
\* finalized.
C2_Witness ==
    /\ pc = "done"
    /\ mesh.finalized
    /\ mesh_calls = <<"TreeMesh", "origin", "refine_points", "refine_surface",
                      "finalize">>
    /\ nC(mesh) > Len(RootCells(nbcx, nbcy))

\* C3: the electrode locations of an existing survey are rewritten only by
\* the drape step, once, when the mesh is finalized and the active-cell
\* mask computed and before the simulation is constructed and data are
\* predicted.
C3_SurveyRewrittenOnceByDrape ==
    /\ [](/\ Len(survey_writes) <= 1
          /\ Past("drape") => survey_writes = <<"drape">>
          /\ pc # "failed" /\ ~Past("drape") => survey_writes = <<>>)
    /\ [][survey # NoSurvey /\ survey' # survey =>
            /\ pc = "drape"
            /\ survey_writes' = Append(survey_writes, "drape")
            /\ mesh.finalized
            /\ Len(active_cells) = nC(mesh)
            /\ simulation = "none"
            /\ dpred = <<>>]_vars

\* A run past the drape step in which draping moved an electrode.
C3_Witness ==
    /\ pc = "done"
    /\ survey_writes = <<"drape">>
    /\ survey # Survey(GenerateSources(end_locations, topo_2d, num_rx_per_src,
                                       station_separation))

\* C4: after the origin shift the top edge of the mesh domain is the
\* maximum topographic elevation and the horizontal centre of the domain is
\* the midpoint of the survey end locations.
C4_OriginAlignsTopAndCentre ==
    Past("base_mesh") =>
        /\ \A k \in 1..Len(topo_2d) : topo_2d[k][2] <= mesh.origin[2] + nbcy * Q(dh)
        /\ \E k \in 1..Len(topo_2d) : topo_2d[k][2] = mesh.origin[2] + nbcy * Q(dh)
        /\ 2 * mesh.origin[1] + nbcx * Q(dh) = Q(end_locations[1] + end_locations[2])

\* A run past the origin shift with a raised topography and a survey line
\* that is not centred on x = 0.
C4_Witness ==
    /\ Past("base_mesh")
    /\ TopoMax(topo_2d) > 0
    /\ end_locations[1] + end_locations[2] # 0
    /\ nbcx > 1

InMesh(loc) ==
    /\ MeshLeft(mesh) <= loc[1] /\ loc[1] <= MeshRight(mesh)
    /\ MeshBottom(mesh) <= loc[2] /\ loc[2] <= MeshTop(mesh)

OnOrBelow(ctr, topo) ==
    \/ ctr[1] <= topo[1][1] /\ ctr[2] <= topo[1][2]
    \/ ctr[1] >= topo[Len(topo)][1] /\ ctr[2] <= topo[Len(topo)][2]
    \/ \E k \in 1..(Len(topo) - 1) :
          /\ topo[k][1] <= ctr[1] /\ ctr[1] <= topo[k + 1][1]
          /\ (ctr[2] - topo[k][2]) * (topo[k + 1][1] - topo[k][1])
             <= (topo[k + 1][2] - topo[k][2]) * (ctr[1] - topo[k][1])

\* C6: the active-cell mask has one boolean per cell of the finalized mesh,
\* true exactly for the cells whose centre is on or below the topography
\* interpolated at the centre's x.
C6_MaskPerCellOnOrBelow ==
    Past("active_cells") =>
        /\ Len(active_cells) = nC(mesh)
        /\ mesh.finalized
        /\ \A k \in 1..nC(mesh) :
              active_cells[k] <=>
                  OnOrBelow(<<2 * CellLeft(mesh, mesh.cells[k])
                                + mesh.cells[k].w * mesh.h,
                              2 * CellBottom(mesh, mesh.cells[k])
                                + mesh.cells[k].w * mesh.h>>,
                            [n \in 1..Len(topo_2d) |->
                                <<2 * topo_2d[n][1], 2 * topo_2d[n][2]>>])

\* A refined mesh with active and air cells and a cell whose centre lies
\* exactly on the topography.
C6_Witness ==
    /\ Past("active_cells")
    /\ nC(mesh) > Len(RootCells(nbcx, nbcy))
    /\ \E k \in 1..nC(mesh) : ~active_cells[k]
    /\ \E k \in 1..nC(mesh) :
          /\ active_cells[k]
          /\ CellCenter(mesh, mesh.cells[k])[2]
             = InterpTopo(topo_2d, CellCenter(mesh, mesh.cells[k])[1])

C8_LaterRegionWins ==
    Past("model") =>
        LET ctrs == ActiveCenters(mesh, active_cells)
        IN  /\ Len(resistivity_model) = Len(ctrs)
            /\ \A a \in 1..Len(ctrs) :
                  resistivity_model[a] =
                      IF InRegion("cylinder", ctrs[a], model_geometry)
                      THEN CylinderRho
                      ELSE IF InRegion("basement", ctrs[a], model_geometry)
                      THEN BasementRho
                      ELSE BackgroundRho

\* A model with a cell in the basement and in the cylinder, a cell in the
\* basement only and a cell in neither.
C8_Witness ==
    /\ Past("model")
    /\ LET ctrs == ActiveCenters(mesh, active_cells)
       IN  /\ \E a \in 1..Len(ctrs) :
                 /\ InRegion("cylinder", ctrs[a], model_geometry)
                 /\ InRegion("basement", ctrs[a], model_geometry)
           /\ \E a \in 1..Len(ctrs) :
                 /\ ~InRegion("cylinder", ctrs[a], model_geometry)
                 /\ InRegion("basement", ctrs[a], model_geometry)
           /\ \E a \in 1..Len(ctrs) :
                 /\ ~InRegion("cylinder", ctrs[a], model_geometry)
                 /\ ~InRegion("basement", ctrs[a], model_geometry)

nSources(sv) == Len(sv.source_list)

Truncated(sv, num_rx) ==
    \E i \in 1..Len(sv.source_list) : Len(sv.source_list[i].receiver_list) < num_rx

PromptCase ==
    /\ end_locations = PromptEndLocations
    /\ station_separation = PromptSpacing
    /\ num_rx_per_src = PromptRxPerSrc

C10_DataAlignedWithSurvey ==
    /\ Past("predict") =>
          /\ Len(dpred) = nD(survey)
          /\ \A k \in 1..Len(dpred) : dpred[k].datum = MeasurementOrder(survey)[k]
    /\ Past("postprocess") =>
          /\ Len(apparent_resistivity) = nD(survey)
          /\ \A k \in 1..Len(apparent_resistivity) :
                apparent_resistivity[k].datum = MeasurementOrder(survey)[k]
          /\ data_type # "volt" => apparent_resistivity = dpred

\* A finished run on voltages with several sources, whose apparent
\* resistivities differ from the voltages.
C10_Witness ==
    /\ pc = "done"
    /\ data_type = "volt"
    /\ nSources(survey) >= 2
    /\ nD(survey) >= 3
    /\ apparent_resistivity # dpred

\* The geometric factor of the k-th measurement of the survey.
FactorOf(sv, num_rx, k) == GeometricFactor(num_rx, MeasurementOrder(sv)[k][2])

ExactlyAsPrompted ==
    namespace \cap UNION {UnpromptedNames(CellOrder[n]) : n \in 1..Len(CellOrder)} = {}

\* C12 as claimed: when every exercise cell has bound exactly the names its
\* prompt names, every name a provided cell is about to read is bound, so
\* no provided cell raises a NameError.
C12_DefinedBeforeUse ==
    ExactlyAsPrompted /\ pc \in ProvidedCells => Reads(pc) \subseteq namespace

====
